---------------------------- MODULE Spec2Model ----------------------------
(***************************************************************************)
(* A model of textualmindmap.py: the Node tree, the outline Parser and the *)
(* GraphvizBackend pass pipeline.  Strings are sequences of one-character  *)
(* strings, so that regular-expression matching, prefix tests and slicing  *)
(* are computed and not assumed.                                           *)
(*                                                                         *)
(* Four specifications share the variables:                                *)
(*   SpecParser  one Parser object, parse() called on it line by line;     *)
(*   Spec        one GraphvizBackend over a tree the Parser produced:      *)
(*               render(), with and without caller passes, one op at a     *)
(*               time;                                                     *)
(*   SpecGroups  one GraphvizBackend on which group(), groupsubtree() and  *)
(*               render() are called;                                      *)
(*   SpecLinks   one GraphvizBackend over a tree of identified nodes and   *)
(*               links, render() without caller passes.                    *)
(***************************************************************************)
EXTENDS Integers, Sequences, FiniteSets, TLC

VARIABLES
  nodes,          \* the heap of Node objects, in creation order
  stack,          \* Parser._stack: <<node, indent>> pairs
  roots,          \* parse(): the local list roots
  singleroot,     \* Parser._singleroot
  ppc,            \* "idle" or "parsing": where the Parser is
  presult,        \* what the last parse() returned
  perror,         \* what the last parse() raised
  parses,         \* how many parse() calls were made on this Parser
  seen,           \* the bulleted lines of the current parse(): <<node, indent>>
  root,           \* GraphvizBackend.root
  groups,         \* the heap of Group objects; groups[1] is _grouproot
  identifiednodes,\* GraphvizBackend._identifiednodes
  passes,         \* GraphvizBackend._passes: <<op, iterator>> pairs
  passidx,        \* render(): the position of the outer loop in _passes
  rpc,            \* "idle" or "rendering"
  rerror,         \* what the last backend call raised
  rresult,        \* whether the last render() returned the graph
  calls,          \* the calls made on the graphviz objects, in order
  applied,        \* the ops applied by the current render(): <<pass, op, node>>
  renders,        \* how many render() calls were made on this backend
  snapshots       \* what each finished render() call emitted and the tree it read

pvars == <<stack, roots, singleroot, ppc, presult, perror, parses, seen>>
bvars == <<root, groups, identifiednodes, passes, passidx, rpc, rerror, rresult,
           calls, applied, renders, snapshots>>
vars == <<nodes, pvars, bvars>>

-----------------------------------------------------------------------------
(* Bounds of the model *)

\* Node objects one Parser makes from bulleted lines
MaxHeap == 4
\* parse() calls on one Parser
MaxParses == 2
\* bulleted lines of the outline a GraphvizBackend is built over
MaxOutline == 3
\* group() and groupsubtree() calls on one GraphvizBackend
MaxGroups == 2
\* render() calls on one GraphvizBackend
MaxRenders == 2
\* render() calls that are given prepasses or postpasses
MaxPassCalls == 1

-----------------------------------------------------------------------------
(* Characters and strings *)

NoNode == 0
NoGraph == 0
None == <<>>

IsSpaceChar(c) == c \in {" ", "\n", "\t"}
IsBullet(c) == c \in {"*", "-", "+"}
IsWordChar(c) == c \in {"a", "b", "c", "e", "g", "i", "k", "l", "n", "o", "r",
                        "t", "x", "z", "A", "B", "F", "."}

\* str.isspace()
isspace(s) == Len(s) > 0 /\ \A i \in 1..Len(s) : IsSpaceChar(s[i])

\* the first position at or after i that holds no whitespace (Len(s)+1 if none)
SkipSpaces(s, i) ==
  CHOOSE j \in i..(Len(s) + 1) :
    /\ \A k \in i..(j - 1) : IsSpaceChar(s[k])
    /\ j = Len(s) + 1 \/ ~IsSpaceChar(s[j])

\* the first position at or after i that holds no [\w\.] character
SkipWord(s, i) ==
  CHOOSE j \in i..(Len(s) + 1) :
    /\ \A k \in i..(j - 1) : IsWordChar(s[k])
    /\ j = Len(s) + 1 \/ ~IsWordChar(s[j])

HasNewline(s) == \E i \in 1..Len(s) : s[i] = "\n"

\* s without the one newline that \n? may take before \Z
Chomp(s) ==
  IF Len(s) > 0 /\ s[Len(s)] = "\n" THEN SubSeq(s, 1, Len(s) - 1) ELSE s

NoMatch == [ok |-> FALSE]

-----------------------------------------------------------------------------
(* Node *)

\* open \s* [\w\.]+ \s* close, at position i of s
Bracketed(s, i, open, close) ==
  IF i <= Len(s) /\ s[i] = open
  THEN LET a == SkipSpaces(s, i + 1)
           b == SkipWord(s, a)
           c == SkipSpaces(s, b)
       IN  IF b > a /\ c <= Len(s) /\ s[c] = close
           THEN [ok |-> TRUE, value |-> SubSeq(s, a, b - 1), next |-> c + 1]
           ELSE NoMatch
  ELSE NoMatch

\* \s* (?P<text>.+) from position p to the end of s: the spaces are greedy but
\* give one character back when nothing else is left for the text
TextFrom(s, p) ==
  LET j == SkipSpaces(s, p)
      start == IF j <= Len(s) THEN j ELSE Len(s)
  IN  IF p <= start /\ start <= Len(s) /\ ~HasNewline(SubSeq(s, start, Len(s)))
      THEN [ok |-> TRUE, text |-> SubSeq(s, start, Len(s))]
      ELSE NoMatch

\* Node.tmmnoderegex.fullmatch(text): the optional groups are tried first and
\* given up in the order the regex engine backtracks
tmmnoderegex(s) ==
  LET g1 == Bracketed(s, 1, "(", ")")
      p1 == IF g1.ok THEN SkipSpaces(s, g1.next) ELSE 1
      g12 == IF g1.ok THEN Bracketed(s, p1, "[", "]") ELSE NoMatch
      tA == IF g12.ok THEN TextFrom(s, g12.next) ELSE NoMatch
      tB == IF g1.ok THEN TextFrom(s, g1.next) ELSE NoMatch
      p0 == SkipSpaces(s, 1)
      g2 == Bracketed(s, p0, "[", "]")
      tC == IF g2.ok THEN TextFrom(s, g2.next) ELSE NoMatch
      tD == TextFrom(s, 1)
  IN  IF tA.ok THEN [ok |-> TRUE, id |-> g1.value, label |-> g12.value, text |-> tA.text]
      ELSE IF tB.ok THEN [ok |-> TRUE, id |-> g1.value, label |-> None, text |-> tB.text]
      ELSE IF tC.ok THEN [ok |-> TRUE, id |-> None, label |-> g2.value, text |-> tC.text]
      ELSE IF tD.ok THEN [ok |-> TRUE, id |-> None, label |-> None, text |-> tD.text]
      ELSE NoMatch

EmptyDict == [k \in {} |-> None]

\* Node.__init__ once the text has matched
Node(m) ==
  [text |-> m.text, identifier |-> m.id, label |-> m.label, parent |-> NoNode,
   children |-> <<>>, level |-> -1, index |-> -1, attributes |-> EmptyDict,
   visible |-> TRUE, graph |-> NoGraph]

\* Node.addchild(parent, child) on the heap ns
addchild(ns, p, c) ==
  [ns EXCEPT ![p].children = Append(@, c), ![c].parent = p]

-----------------------------------------------------------------------------
(* Parser *)

\* Parser.commentregex.fullmatch(line)
commentregex(line) ==
  LET k == SkipSpaces(line, 1)
      body == Chomp(SubSeq(line, k + 1, Len(line)))
  IN  /\ k <= Len(line)
      /\ line[k] = "#"
      /\ Len(body) > 0
      /\ ~HasNewline(body)

\* Parser.noderegex.fullmatch(line): the groups indent (its length) and text
noderegex(line) ==
  LET k == SkipSpaces(line, 1)
      body == Chomp(SubSeq(line, k + 1, Len(line)))
      w == SkipSpaces(body, 1)
      start == IF w <= Len(body) THEN w ELSE Len(body)
  IN  IF /\ k <= Len(line)
         /\ IsBullet(line[k])
         /\ start >= 1
         /\ ~HasNewline(SubSeq(body, start, Len(body)))
      THEN [ok |-> TRUE, indent |-> k - 1, text |-> SubSeq(body, start, Len(body))]
      ELSE NoMatch

\* parse(): while self._stack and self._stack[-1][1] >= indent: self._stack.pop()
RECURSIVE PopStack(_, _)
\* the same loop stopping at an equal indent, as a sibling test with > would
PopStackStrict(stk, indent) ==
  IF Len(stk) > 0 /\ stk[Len(stk)][2] > indent
  THEN PopStack(SubSeq(stk, 1, Len(stk) - 1), indent)
  ELSE stk
PopStack(stk, indent) ==
  IF Len(stk) > 0 /\ stk[Len(stk)][2] >= indent
  THEN PopStack(SubSeq(stk, 1, Len(stk) - 1), indent)
  ELSE stk

\* parse(): one turn of the loop over the lines, on the heap ns, the stack stk
\* and the list rts.  node is the node the line made, NoNode when it made none.
ParseLine(ns, stk, rts, line) ==
  LET same == [nodes |-> ns, stack |-> stk, roots |-> rts, error |-> "none",
               node |-> NoNode, indent |-> 0]
      m == noderegex(line)
      t == tmmnoderegex(m.text)
      n == Len(ns) + 1
      popped == PopStack(stk, m.indent)
      made == Append(ns, Node(t))
  IN  IF isspace(line) THEN same
      ELSE IF commentregex(line) THEN same
      ELSE IF ~m.ok THEN [same EXCEPT !.error = "InvalideSyntaxError"]
      ELSE IF ~t.ok THEN [same EXCEPT !.error = "InvalideSyntaxError"]
      ELSE [nodes |-> IF Len(popped) > 0
                      THEN addchild(made, popped[Len(popped)][1], n)
                      ELSE made,
            stack |-> Append(popped, <<n, m.indent>>),
            roots |-> IF Len(popped) > 0 THEN rts ELSE Append(rts, n),
            error |-> "none",
            node |-> n,
            indent |-> m.indent]

\* for root in roots: self._edgefn(pseudoroot, root)
RECURSIVE AddChildren(_, _, _)
AddChildren(ns, p, cs) ==
  IF cs = <<>> THEN ns
  ELSE AddChildren(addchild(ns, p, Head(cs)), p, Tail(cs))

\* parse(): the lines after the loop
\* a pseudo-root for any list of roots, as a test len(roots) > 0 would make
ParseReturnAlways(ns, rts, sr) ==
  LET t == tmmnoderegex(sr)
      n == Len(ns) + 1
  IN  IF Len(rts) > 0 /\ sr # None
      THEN [nodes |-> AddChildren(Append(ns, Node(t)), n, rts),
            result |-> <<n>>, error |-> "none"]
      ELSE [nodes |-> ns, result |-> rts, error |-> "none"]
ParseReturn(ns, rts, sr) ==
  LET t == tmmnoderegex(sr)
      n == Len(ns) + 1
  IN  IF Len(rts) > 1 /\ sr # None
      THEN IF ~t.ok
           THEN [nodes |-> ns, result |-> <<>>, error |-> "InvalideSyntaxError"]
           ELSE [nodes |-> AddChildren(Append(ns, Node(t)), n, rts),
                 result |-> <<n>>, error |-> "none"]
      ELSE [nodes |-> ns, result |-> rts, error |-> "none"]

\* the lines the model feeds to parse(): blank, comment, bulleted at three
\* indentation widths, malformed, and a comment without text
BlankLine == <<" ", "\n">>
CommentLine == <<" ", "#", "a", "\n">>
BadLine == <<"a", "\n">>
Bullet0 == <<"*", " ", "a", "\n">>
Bullet1 == <<" ", "-", " ", "a", "\n">>
Bullet2 == <<" ", " ", "+", "a", "\n">>
\* a comment mark with nothing after it
EmptyComment == <<"#", "\n">>
Lines == {BlankLine, CommentLine, EmptyComment, BadLine, Bullet0, Bullet1, Bullet2}

RootName == <<"r", "o", "o", "t">>

-----------------------------------------------------------------------------
(* GraphvizBackend: dictionaries, predicates and the calls on graphviz objects *)

StartsWith(s, p) == Len(s) >= Len(p) /\ SubSeq(s, 1, Len(p)) = p

\* d[k] = v
Put(d, k, v) == [x \in DOMAIN d \cup {k} |-> IF x = k THEN v ELSE d[x]]

\* d.copy() then update(e)
Update(d, e) ==
  [x \in DOMAIN d \cup DOMAIN e |-> IF x \in DOMAIN e THEN e[x] ELSE d[x]]

\* {k[2:]: v for k, v in attrs.items() if k.startswith(p)}, p of two characters
Prefixed(attrs, p) ==
  LET keys == {k \in DOMAIN attrs : StartsWith(k, p)}
  IN  [x \in {SubSeq(k, 3, Len(k)) : k \in keys} |-> attrs[p \o x]]

LinkLabel == <<"l", "i", "n", "k">>
NodePrefix == <<"n", ".">>
EdgePrefix == <<"e", ".">>

\* GraphvizBackend.__init__: the default extralinkattrs
extralinkattrs ==
  Put(Put(EmptyDict, <<"s", "t", "y", "l", "e">>, <<"d", "a", "s", "h", "e", "d">>),
      <<"w", "e", "i", "g", "h", "t">>, <<"0", ".", "1">>)

\* self._linkpred
linkpred(nd) == nd.label = LinkLabel

\* self._attrpred: label and re.match(r'\A[gne]\..+', label)
attrpred(nd) ==
  /\ nd.label # None
  /\ Len(nd.label) >= 3
  /\ nd.label[1] \in {"g", "n", "e"}
  /\ nd.label[2] = "."
  /\ nd.label[3] # "\n"

\* nodenamefn = Node.text
nodenamefn(nd) == nd.text

NoError == [type |-> "none", arg |-> None]
Error(t, a) == [type |-> t, arg |-> a]

\* what an op leaves: the node heap, the identifier table, the calls made on
\* the graphviz objects, and the exception it raised
Done(ns, ids, cs) == [nodes |-> ns, identifiednodes |-> ids, calls |-> cs,
                      error |-> NoError]
Raised(ns, ids, cs, e) == [nodes |-> ns, identifiednodes |-> ids, calls |-> cs,
                           error |-> e]

\* graph.node(name, label, **attrs) on container g, made for Node n
NodeCall(g, n, name, attrs) ==
  [call |-> "node", graph |-> g, node |-> n, name |-> name, attrs |-> attrs]
\* self._graph.edge(tail, head, **attrs), made by op applied to Node n, for the
\* Nodes t and h
EdgeCall(op, n, t, h, tname, hname, attrs) ==
  [call |-> "edge", op |-> op, node |-> n, tailnode |-> t, headnode |-> h,
   tail |-> tname, head |-> hname, attrs |-> attrs]
\* parent.graph.subgraph(group.graph), made for Group grp
SubgraphCall(g, sub, grp) ==
  [call |-> "subgraph", graph |-> g, sub |-> sub, group |-> grp]

-----------------------------------------------------------------------------
(* GraphvizBackend: the ops of the passes *)

\* collect identifier op
collectidentifiedop(ns, ids, cs, n) ==
  IF ns[n].identifier # None
  THEN IF ns[n].identifier \in DOMAIN ids
       THEN Raised(ns, ids, cs, Error("RedefinedIdentifierError", ns[n].identifier))
       ELSE Done(ns, Put(ids, ns[n].identifier, n), cs)
  ELSE Done(ns, ids, cs)

\* Node.hide
\* the same taking the hidden node out of its parent's children
hideDetach(ns, n) ==
  IF ns[n].parent = NoNode THEN [ns EXCEPT ![n].visible = FALSE]
  ELSE [ns EXCEPT ![n].visible = FALSE,
                  ![ns[n].parent].children = SelectSeq(@, LAMBDA c : c # n)]
hide(ns, n) == [ns EXCEPT ![n].visible = FALSE]
\* Node.show
show(ns, n) == [ns EXCEPT ![n].visible = TRUE]

\* Node.asattr, past its test of the label
\* the same with the reserved prefix cut off the key
asattrSuffix(ns, n) ==
  [ns EXCEPT ![ns[n].parent].attributes =
     Put(@, SubSeq(ns[n].label, 3, Len(ns[n].label)), ns[n].text)]
asattr(ns, n) ==
  [ns EXCEPT ![ns[n].parent].attributes = Put(@, ns[n].label, ns[n].text)]

\* hide attribute op
nodeattrop(ns, ids, cs, n) ==
  LET hoisted == IF attrpred(ns[n]) THEN hide(asattr(ns, n), n) ELSE ns
  IN  IF attrpred(ns[n]) /\ ns[n].label = None
      THEN Raised(ns, ids, cs, Error("AnonymousAttributeError", ns[n].text))
      ELSE IF attrpred(ns[n]) /\ ns[n].parent = NoNode
      THEN Raised(ns, ids, cs, Error("AttributeError", None))
      ELSE Done(IF linkpred(ns[n]) THEN hide(hoisted, n) ELSE hoisted, ids, cs)

\* extra link operation, with the node it takes as tail and whether it tests
\* the visibility of the two ends
ExtraLink(ns, ids, cs, n, tail, tested) ==
  IF ~linkpred(ns[n]) THEN Done(ns, ids, cs)
  ELSE IF ns[n].text \notin DOMAIN ids
  THEN Raised(ns, ids, cs, Error("UndefinedIdentifierError", ns[n].text))
  ELSE LET head == ids[ns[n].text]
       IN  IF tail = NoNode
           THEN Raised(ns, ids, cs, Error("AttributeError", None))
           ELSE IF tested /\ (~ns[tail].visible \/ ~ns[head].visible)
           THEN Done(ns, ids, cs)
           ELSE Done(ns, ids,
                     Append(cs, EdgeCall("extralinkop", n, tail, head,
                                         nodenamefn(ns[tail]), nodenamefn(ns[head]),
                                         Update(extralinkattrs,
                                                Prefixed(ns[n].attributes, EdgePrefix)))))

\* extra link operation
\* the same drawing the edge from the link node itself
extralinkopFromLink(ns, ids, cs, n) == ExtraLink(ns, ids, cs, n, n, TRUE)
\* the same without the test of the two ends' visibility
extralinkopUntested(ns, ids, cs, n) == ExtraLink(ns, ids, cs, n, ns[n].parent, FALSE)
\* the same passing over a link whose text is no collected identifier
extralinkopSilent(ns, ids, cs, n) ==
  IF linkpred(ns[n]) /\ ns[n].text \notin DOMAIN ids THEN Done(ns, ids, cs)
  ELSE ExtraLink(ns, ids, cs, n, ns[n].parent, TRUE)
extralinkop(ns, ids, cs, n) == ExtraLink(ns, ids, cs, n, ns[n].parent, TRUE)

\* node render opeartion; container 1 is self._graph
\* the same emitting every node into self._graph, whatever its group
noderenderopUngrouped(ns, ids, cs, n) ==
  IF ~ns[n].visible THEN Done(ns, ids, cs)
  ELSE Done(ns, ids,
            Append(cs, NodeCall(1, n, nodenamefn(ns[n]),
                                Prefixed(ns[n].attributes, NodePrefix))))
noderenderop(ns, ids, cs, n) ==
  IF ~ns[n].visible THEN Done(ns, ids, cs)
  ELSE Done(ns, ids,
            Append(cs, NodeCall(IF ns[n].graph = NoGraph THEN 1 ELSE ns[n].graph,
                                n, nodenamefn(ns[n]),
                                Prefixed(ns[n].attributes, NodePrefix))))

\* edge render operation
edgerenderop(ns, ids, cs, n) ==
  LET parent == ns[n].parent
  IN  IF parent # NoNode /\ ns[n].visible /\ ns[parent].visible
      THEN Done(ns, ids,
                Append(cs, EdgeCall("edgerenderop", n, parent, n, nodenamefn(ns[parent]),
                                    nodenamefn(ns[n]),
                                    Prefixed(ns[n].attributes, EdgePrefix))))
      ELSE Done(ns, ids, cs)

\* group assemble op, on the Group heap gs
groupassembleop(ns, ids, cs, gs, g) ==
  LET parent == gs[g].parent
  IN  IF parent # NoNode
      THEN Done(ns, ids, Append(cs, SubgraphCall(gs[parent].graph, gs[g].graph, g)))
      ELSE Done(ns, ids, cs)

\* the text of the node a caller's attaching op makes
AttachedText == <<"B">>

\* an op a caller passes to render(): lambda n: Node.addchild(n, Node('B'))
attachop(ns, ids, cs, n) ==
  Done(addchild(Append(ns, Node(tmmnoderegex(AttachedText))), n, Len(ns) + 1), ids, cs)

\* op(n) in render()
ApplyOp(op, ns, ids, cs, gs, x) ==
  CASE op = "collectidentifiedop" -> collectidentifiedop(ns, ids, cs, x)
    [] op = "nodeattrop" -> nodeattrop(ns, ids, cs, x)
    [] op = "noderenderop" -> noderenderop(ns, ids, cs, x)
    [] op = "groupassembleop" -> groupassembleop(ns, ids, cs, gs, x)
    [] op = "edgerenderop" -> edgerenderop(ns, ids, cs, x)
    [] op = "extralinkop" -> extralinkop(ns, ids, cs, x)
    [] op = "hide" -> Done(hide(ns, x), ids, cs)
    [] op = "show" -> Done(show(ns, x), ids, cs)
    [] op = "attachop" -> attachop(ns, ids, cs, x)

-----------------------------------------------------------------------------
(* Iterators *)

\* Node.dfsiter(): a generator; nothing of the tree is read before next()
\* the same walk made at once, as a list built when the pass is registered
RECURSIVE Preorder(_, _)
RECURSIVE PreorderAll(_, _)
Preorder(ns, n) == <<n>> \o PreorderAll(ns, ns[n].children)
PreorderAll(ns, cs) ==
  IF cs = <<>> THEN <<>> ELSE Preorder(ns, Head(cs)) \o PreorderAll(ns, Tail(cs))
dfsiterEager(ns, n) ==
  [kind |-> "list", items |-> Preorder(ns, n), pos |-> 0]
dfsiter(ns, n) ==
  [kind |-> "dfsiter", start |-> n, started |-> FALSE, frames |-> <<>>]

\* Group.bottomupiter(): a generator
\* the same walk yielding a group before its subgroups
bottomupiterTopDown(gs, g) ==
  [kind |-> "dfsiter", start |-> g, started |-> FALSE, frames |-> <<>>]
bottomupiter(gs, g) ==
  [kind |-> "bottomupiter", start |-> g, started |-> FALSE, frames |-> <<>>]

\* a list (or tuple) a caller gives as the iterable of a pass
listiter(items) == [kind |-> "list", items |-> items, pos |-> 0]

Exhausted(it) == [item |-> NoNode, it |-> it]

\* next() of a dfsiter generator past its first yield: frames holds, for each
\* node whose children are being walked, how many of them were taken; the
\* children list is read when the next child is asked for
RECURSIVE DfsResume(_, _, _)
DfsResume(heap, it, frames) ==
  IF frames = <<>> THEN Exhausted([it EXCEPT !.frames = <<>>])
  ELSE LET top == frames[Len(frames)]
           rest == SubSeq(frames, 1, Len(frames) - 1)
       IN  IF top[2] < Len(heap[top[1]].children)
           THEN LET c == heap[top[1]].children[top[2] + 1]
                IN  [item |-> c,
                     it |-> [it EXCEPT !.frames =
                               rest \o <<(<<top[1], top[2] + 1>>), (<<c, 0>>)>>]]
           ELSE DfsResume(heap, it, rest)

\* next() of a bottomupiter generator: a group is yielded when its children
\* list is used up
RECURSIVE BottomUpResume(_, _, _)
BottomUpResume(heap, it, frames) ==
  IF frames = <<>> THEN Exhausted([it EXCEPT !.frames = <<>>])
  ELSE LET top == frames[Len(frames)]
           rest == SubSeq(frames, 1, Len(frames) - 1)
       IN  IF top[2] < Len(heap[top[1]].children)
           THEN BottomUpResume(heap, it,
                  rest \o <<(<<top[1], top[2] + 1>>),
                            (<<heap[top[1]].children[top[2] + 1], 0>>)>>)
           ELSE [item |-> top[1], it |-> [it EXCEPT !.frames = rest]]

\* next(it) on the heap the iterator walks: the item (NoNode for StopIteration)
\* and the iterator afterwards
IterNext(heap, it) ==
  CASE it.kind = "list" ->
         IF it.pos < Len(it.items)
         THEN [item |-> it.items[it.pos + 1], it |-> [it EXCEPT !.pos = @ + 1]]
         ELSE Exhausted(it)
    [] it.kind = "dfsiter" ->
         IF ~it.started
         THEN [item |-> it.start,
               it |-> [it EXCEPT !.started = TRUE, !.frames = <<(<<it.start, 0>>)>>]]
         ELSE DfsResume(heap, it, it.frames)
    [] it.kind = "bottomupiter" ->
         IF ~it.started
         THEN BottomUpResume(heap, [it EXCEPT !.started = TRUE], <<(<<it.start, 0>>)>>)
         ELSE BottomUpResume(heap, it, it.frames)

\* iter(it) when a for loop starts: a generator is its own iterator, a list
\* gives a new iterator
IterStart(it) == IF it.kind = "list" THEN [it EXCEPT !.pos = 0] ELSE it

-----------------------------------------------------------------------------
(* SpecParser: one Parser, its parse() fed line by line *)

\* no GraphvizBackend has been constructed
NoBackend ==
  /\ root = NoNode
  /\ groups = <<>>
  /\ identifiednodes = EmptyDict
  /\ passes = <<>>
  /\ passidx = 0
  /\ rpc = "unbuilt"
  /\ rerror = NoError
  /\ rresult = FALSE
  /\ calls = <<>>
  /\ applied = <<>>
  /\ renders = 0
  /\ snapshots = <<>>

\* Parser.__init__, with the default singleroot = 'root' or with None
PInit ==
  /\ nodes = <<>>
  /\ stack = <<>>
  /\ roots = <<>>
  /\ singleroot \in {RootName, None}
  /\ ppc = "idle"
  /\ presult = <<>>
  /\ perror = "none"
  /\ parses = 0
  /\ seen = <<>>
  /\ NoBackend

\* parse() is entered: roots = []
ParseCall ==
  /\ ppc = "idle"
  /\ parses < MaxParses
  /\ ppc' = "parsing"
  /\ parses' = parses + 1
  /\ roots' = <<>>
  /\ seen' = <<>>
  /\ presult' = <<>>
  /\ perror' = "none"
  /\ UNCHANGED <<nodes, stack, singleroot, bvars>>

\* parse(): the loop reads one more line of fileobj
ParseRead ==
  /\ ppc = "parsing"
  /\ \E line \in Lines :
       LET r == ParseLine(nodes, stack, roots, line)
       IN  /\ r.node # NoNode => Len(nodes) < MaxHeap
           /\ nodes' = r.nodes
           /\ stack' = r.stack
           /\ roots' = r.roots
           /\ perror' = r.error
           /\ ppc' = IF r.error = "none" THEN "parsing" ELSE "idle"
           /\ seen' = IF r.node # NoNode THEN Append(seen, <<r.node, r.indent>>)
                      ELSE seen
  /\ UNCHANGED <<singleroot, presult, parses, bvars>>

\* parse(): fileobj is exhausted, the pseudo-root is made and parse() returns
ParseEnd ==
  /\ ppc = "parsing"
  /\ LET r == ParseReturn(nodes, roots, singleroot)
     IN  /\ nodes' = r.nodes
         /\ presult' = r.result
         /\ perror' = r.error
  /\ ppc' = "idle"
  /\ UNCHANGED <<stack, roots, singleroot, parses, seen, bvars>>

PNext == ParseCall \/ ParseRead \/ ParseEnd

SpecParser == PInit /\ [][PNext]_vars

-----------------------------------------------------------------------------
(* Claims about the Parser *)

\* the line of seen that parse() should make the parent of line k: the nearest
\* earlier line of strictly smaller indentation width, 0 when there is none
NearestSmaller(k) ==
  LET S == {j \in 1..(k - 1) : seen[j][2] < seen[k][2]}
  IN  IF S = {} THEN 0 ELSE CHOOSE j \in S : \A i \in S : i <= j

\* the nodes of the lines of seen that have no earlier line of smaller width
TopLevel == SelectSeq(seen, LAMBDA e : \A j \in 1..Len(seen) :
                        seen[j][1] < e[1] => seen[j][2] >= e[2])

\* C1 as claimed: in the first parse() of a Parser every line's node has as parent
\* the node of the nearest earlier line of strictly smaller indentation width,
\* and a line without such a line is in roots and was never the child of an
\* edgefn call.
C1Claimed ==
  parses = 1 =>
    \A k \in 1..Len(seen) :
      LET n == seen[k][1]
          j == NearestSmaller(k)
      IN  IF j # 0
          THEN nodes[n].parent = seen[j][1]
          ELSE /\ \E i \in 1..Len(roots) : roots[i] = n
               /\ nodes[n].parent = NoNode

\* C1 amended: in the first parse() of a Parser every line's node has as parent
\* the node of the nearest earlier line of strictly smaller indentation width
\* (equal width makes a sibling); a line without such a line is in roots, and
\* edgefn is never called for it while the lines are read: the one edgefn call
\* it can get is the final edgefn(pseudoroot, it) when a pseudo-root is made.
C1Nesting ==
  parses = 1 =>
    \A k \in 1..Len(seen) :
      LET n == seen[k][1]
          j == NearestSmaller(k)
      IN  IF j # 0
          THEN nodes[n].parent = seen[j][1]
          ELSE /\ \E i \in 1..Len(roots) : roots[i] = n
               /\ ppc = "parsing" => nodes[n].parent = NoNode
               /\ nodes[n].parent # NoNode =>
                    /\ presult = <<nodes[n].parent>>
                    /\ singleroot # None
                    /\ Len(roots) > 1
                    /\ \A i \in 1..Len(seen) : seen[i][1] # nodes[n].parent

\* C1 witness: three lines of widths w, v, v with w < v: the third is a sibling
\* of the second, both children of the first.
C1Witness ==
  /\ parses = 1
  /\ Len(seen) = 3
  /\ seen[1][2] < seen[2][2]
  /\ seen[2][2] = seen[3][2]
  /\ nodes[seen[3][1]].parent = seen[1][1]
  /\ nodes[seen[2][1]].parent = seen[1][1]

\* C2: when parse() returns, with more than one top-level node it returns one new
\* pseudo-root whose children are the top-level nodes in source order if
\* single-root mode is on, and the top-level nodes themselves if it is off; with
\* one top-level node it makes no node and returns that node alone.  In the first
\* parse() of a Parser the top-level nodes are the lines with no earlier line of
\* smaller indentation width.
C2Roots ==
  [][(ppc = "parsing" /\ ppc' = "idle" /\ perror' = "none") =>
       /\ parses = 1 => roots = [i \in 1..Len(TopLevel) |-> TopLevel[i][1]]
       /\ (Len(roots) > 1 /\ singleroot # None) =>
            /\ Len(nodes') = Len(nodes) + 1
            /\ presult' = <<Len(nodes')>>
            /\ nodes'[Len(nodes')].children = roots
            /\ nodes'[Len(nodes')].parent = NoNode
            /\ nodes'[Len(nodes')].text = singleroot
            /\ \A i \in 1..Len(roots) : nodes'[roots[i]].parent = Len(nodes')
       /\ (Len(roots) > 1 /\ singleroot = None) =>
            /\ presult' = roots
            /\ nodes' = nodes
       /\ Len(roots) = 1 =>
            /\ presult' = roots
            /\ nodes' = nodes]_vars

\* C2 witness: a parse() that read two top-level lines has returned a pseudo-root
\* with exactly these two children.
C2Witness ==
  /\ ppc = "idle"
  /\ parses = 1
  /\ perror = "none"
  /\ Len(roots) = 2
  /\ Len(presult) = 1
  /\ nodes[presult[1]].children = roots
  /\ presult[1] \notin {roots[1], roots[2]}

-----------------------------------------------------------------------------
(* Spec: one GraphvizBackend over the tree of an outline *)

\* the texts of the outline's lines: plain, identified, a link to the
\* identifier, node attributes of one key with two values, an edge attribute
TPlain == <<"A">>
TIdent == <<"(", "a", ")", " ", "F">>
TLink == <<"[", "l", "i", "n", "k", "]", " ", "a">>
TAttrB == <<"[", "n", ".", "c", "]", " ", "b">>
TAttrR == <<"[", "n", ".", "c", "]", " ", "r">>
TEdge == <<"[", "e", ".", "c", "]", " ", "r">>
Texts == {TPlain, TIdent, TLink, TAttrB, TAttrR, TEdge}
\* the texts of the outlines whose nodes are grouped
GroupedTexts == {TPlain, TAttrB, TLink}
\* a link to an identifier that no line declares
TLinkB == <<"[", "l", "i", "n", "k", "]", " ", "b">>
\* the texts of the outlines of identified nodes and links
LinkTexts == {TIdent, TLink, TLinkB}

BulletLine(indent, text) ==
  [i \in 1..indent |-> " "] \o <<"*", " ">> \o text \o <<"\n">>

\* outlines of 1..MaxOutline bulleted lines, <<indent, text>> each, the first at
\* width 0 and none more than one wider than the line before it
Outlines(texts) ==
  UNION {{o \in [1..len -> (0..(len - 1)) \X texts] :
            /\ o[1][1] = 0
            /\ \A k \in 1..(len - 1) : o[k + 1][1] <= o[k][1] + 1}
         : len \in 1..MaxOutline}

\* Parser(Node, Node.addchild).parse(lines): the loop over the lines, r being
\* what the turn for the line before rest left
RECURSIVE ParseLines(_, _, _, _, _)
ParseRest(r, sn, rest) ==
  IF r.error # "none"
  THEN [nodes |-> r.nodes, stack |-> r.stack, roots |-> r.roots,
        seen |-> sn, error |-> r.error]
  ELSE ParseLines(r.nodes, r.stack, r.roots,
                  IF r.node # NoNode THEN Append(sn, <<r.node, r.indent>>) ELSE sn,
                  rest)
ParseLines(ns, stk, rts, sn, lines) ==
  IF lines = <<>>
  THEN [nodes |-> ns, stack |-> stk, roots |-> rts, seen |-> sn, error |-> "none"]
  ELSE ParseRest(ParseLine(ns, stk, rts, Head(lines)), sn, Tail(lines))

\* GraphvizBackend.Group.__init__(name, graph), name having matched
Group(m, graph) ==
  [text |-> m.text, parent |-> NoNode, children |-> <<>>, graph |-> graph]

\* GraphvizBackend(roots[0]) is constructed over what parse() returns, p being
\* what the loop over the lines left
BuiltOver(p) ==
  LET r == ParseReturn(p.nodes, p.roots, RootName)
  IN  /\ nodes = r.nodes
      /\ stack = p.stack
      /\ roots = p.roots
      /\ seen = p.seen
      /\ singleroot = RootName
      /\ ppc = "idle"
      /\ presult = r.result
      /\ perror = r.error
      /\ parses = 1
      /\ root = r.result[1]
      /\ groups = <<Group(tmmnoderegex(RootName), 1)>>
      /\ identifiednodes = EmptyDict
      /\ passes = <<>>
      /\ passidx = 0
      /\ rpc = "idle"
      /\ rerror = NoError
      /\ rresult = FALSE
      /\ calls = <<>>
      /\ applied = <<>>
      /\ renders = 0
      /\ snapshots = <<>>

\* the outline is parsed by a new Parser in single-root mode and
\* GraphvizBackend(roots[0]) is constructed
Built(texts) ==
  \E o \in Outlines(texts) :
    BuiltOver(ParseLines(<<>>, <<>>, <<>>, <<>>,
                        [k \in 1..Len(o) |-> BulletLine(o[k][1], o[k][2])]))

Init == Built(Texts)

\* for n in nodes: n.graph = subgraph
RECURSIVE SetGraph(_, _, _)
SetGraph(ns, items, g) ==
  IF items = <<>> THEN ns
  ELSE SetGraph([ns EXCEPT ![Head(items)].graph = g], Tail(items), g)

\* GraphvizBackend.group(nodes, name, parent) with parent a Group (1 is the
\* _grouproot that parent=None stands for)
GroupBody(ns, gs, items, name, parent) ==
  LET m == tmmnoderegex(name)
      g == Len(gs) + 1
  IN  IF name = None
      THEN [nodes |-> ns, groups |-> gs, error |-> Error("AttributeError", None)]
      ELSE IF ~m.ok
      THEN [nodes |-> ns, groups |-> gs, error |-> Error("InvalideSyntaxError", None)]
      ELSE [nodes |-> SetGraph(ns, items, g),
            groups |-> addchild(Append(gs, Group(m, g)), parent, g),
            error |-> NoError]

GroupName == <<"g">>

\* a call of group() on one node
GroupCall ==
  /\ rpc = "idle"
  /\ Len(groups) <= MaxGroups
  /\ \E n \in 1..Len(nodes), name \in {None, GroupName}, parent \in 1..Len(groups) :
       LET r == GroupBody(nodes, groups, <<n>>, name, parent)
       IN  /\ nodes' = r.nodes
           /\ groups' = r.groups
           /\ rerror' = r.error
  /\ UNCHANGED <<pvars, root, identifiednodes, passes, passidx, rpc, rresult, calls,
                 applied, renders, snapshots>>

\* a call of groupsubtree(): group(node.dfsiter(), name, parent)
GroupSubtreeCall ==
  /\ rpc = "idle"
  /\ Len(groups) <= MaxGroups
  /\ \E n \in 1..Len(nodes), name \in {None, GroupName}, parent \in 1..Len(groups) :
       LET r == GroupBody(nodes, groups, Preorder(nodes, n), name, parent)
       IN  /\ nodes' = r.nodes
           /\ groups' = r.groups
           /\ rerror' = r.error
  /\ UNCHANGED <<pvars, root, identifiednodes, passes, passidx, rpc, rresult, calls,
                 applied, renders, snapshots>>

\* a pass as render() keeps it: the op, its iterable, the heap the iterable
\* walks, and which render() call registered it and in which role
Pass(op, it, over, role) ==
  [op |-> op, it |-> it, over |-> over, role |-> role, call |-> renders + 1]

\* GraphvizBackend._populatestdpasses
\* the same with the node rendering registered before the attribute hoisting
stdpassesRenderFirst ==
  << Pass("collectidentifiedop", dfsiter(nodes, root), "nodes", "std"),
     Pass("noderenderop", dfsiter(nodes, root), "nodes", "std"),
     Pass("nodeattrop", dfsiter(nodes, root), "nodes", "std"),
     Pass("groupassembleop", bottomupiter(groups, 1), "groups", "std"),
     Pass("edgerenderop", dfsiter(nodes, root), "nodes", "std"),
     Pass("extralinkop", dfsiter(nodes, root), "nodes", "std") >>
stdpasses ==
  << Pass("collectidentifiedop", dfsiter(nodes, root), "nodes", "std"),
     Pass("nodeattrop", dfsiter(nodes, root), "nodes", "std"),
     Pass("noderenderop", dfsiter(nodes, root), "nodes", "std"),
     Pass("groupassembleop", bottomupiter(groups, 1), "groups", "std"),
     Pass("edgerenderop", dfsiter(nodes, root), "nodes", "std"),
     Pass("extralinkop", dfsiter(nodes, root), "nodes", "std") >>

\* the prepasses a caller gives: none, [(Node.hide, [n])], or an attaching op
\* on [root]
PrePasses ==
  {<<>>} \cup {<<Pass("hide", listiter(<<n>>), "nodes", "pre")>> : n \in 1..Len(nodes)}
         \cup {<<Pass("attachop", listiter(<<root>>), "nodes", "pre")>>}

\* the postpasses a caller gives: none, or [(Node.show, root.dfsiter())]
PostPasses ==
  {<<>>, <<Pass("show", dfsiter(nodes, root), "nodes", "post")>>}

\* the render() calls so far that were given passes by their caller
PassCalls == {passes[i].call : i \in {j \in 1..Len(passes) : passes[j].role # "std"}}

\* render(prepasses, postpasses) is entered: the passes are registered and the
\* loop starts
RenderEnter(pre, post) ==
  /\ rpc = "idle"
  /\ renders < MaxRenders
  /\ passes' = [i \in 1..(Len(passes) + Len(pre) + Len(stdpasses) + Len(post)) |->
                  LET all == passes \o pre \o stdpasses \o post
                  IN  [all[i] EXCEPT !.it = IterStart(@)]]
  /\ passidx' = 1
  /\ rpc' = "rendering"
  /\ rerror' = NoError
  /\ rresult' = FALSE
  /\ applied' = <<>>
  /\ renders' = renders + 1
  /\ snapshots' = Append(snapshots, [from |-> Len(calls), upto |-> Len(calls),
                                     table |-> identifiednodes,
                                     done |-> FALSE, error |-> NoError])
  /\ UNCHANGED <<nodes, pvars, root, groups, identifiednodes, calls>>

\* render() without arguments
RenderCall == RenderEnter(<<>>, <<>>)

\* render() with prepasses, postpasses or both
RenderCallWithPasses ==
  /\ Cardinality(PassCalls) < MaxPassCalls
  /\ \E pre \in PrePasses, post \in PostPasses :
       /\ pre \o post # <<>>
       /\ RenderEnter(pre, post)

Heap(over) == IF over = "groups" THEN groups ELSE nodes

\* render(): n = next(it); op(n)
RenderOp ==
  /\ rpc = "rendering"
  /\ passidx <= Len(passes)
  /\ LET p == passes[passidx]
         nx == IterNext(Heap(p.over), p.it)
         r == ApplyOp(p.op, nodes, identifiednodes, calls, groups, nx.item)
     IN  /\ nx.item # NoNode
         /\ passes' = [passes EXCEPT ![passidx].it = nx.it]
         /\ nodes' = r.nodes
         /\ identifiednodes' = r.identifiednodes
         /\ calls' = r.calls
         /\ applied' = Append(applied, <<passidx, p.op, nx.item>>)
         /\ rerror' = r.error
         /\ rpc' = IF r.error = NoError THEN "rendering" ELSE "idle"
         /\ snapshots' = IF r.error = NoError THEN snapshots
                         ELSE [snapshots EXCEPT ![renders].upto = Len(r.calls),
                                                ![renders].done = TRUE,
                                                ![renders].error = r.error]
  /\ UNCHANGED <<pvars, root, groups, passidx, rresult, renders>>

\* render(): next(it) raises StopIteration and the outer loop moves on
RenderPassDone ==
  /\ rpc = "rendering"
  /\ passidx <= Len(passes)
  /\ LET p == passes[passidx]
         nx == IterNext(Heap(p.over), p.it)
     IN  /\ nx.item = NoNode
         /\ passes' = [passes EXCEPT ![passidx].it = nx.it]
  /\ passidx' = passidx + 1
  /\ UNCHANGED <<nodes, pvars, root, groups, identifiednodes, rpc, rerror, rresult,
                 calls, applied, renders, snapshots>>

\* render(): return self._graph
RenderReturn ==
  /\ rpc = "rendering"
  /\ passidx > Len(passes)
  /\ rpc' = "idle"
  /\ rresult' = TRUE
  /\ snapshots' = [snapshots EXCEPT ![renders].upto = Len(calls),
                                    ![renders].done = TRUE]
  /\ UNCHANGED <<nodes, pvars, root, groups, identifiednodes, passes, passidx, rerror,
                 calls, applied, renders>>

Next ==
  \/ RenderCall
  \/ RenderCallWithPasses
  \/ RenderOp
  \/ RenderPassDone
  \/ RenderReturn

Spec == Init /\ [][Next]_vars

\* the backend of SpecGroups is built over an outline of plain nodes, attribute
\* nodes and links
GInit == Built(GroupedTexts)

GNext ==
  \/ GroupCall
  \/ GroupSubtreeCall
  \/ RenderCall
  \/ RenderOp
  \/ RenderPassDone
  \/ RenderReturn

SpecGroups == GInit /\ [][GNext]_vars

\* the backend of SpecLinks is built over an outline of identified nodes and
\* links, and its render() is given no passes
LInit == Built(LinkTexts)

LNext ==
  \/ RenderCall
  \/ RenderOp
  \/ RenderPassDone
  \/ RenderReturn

SpecLinks == LInit /\ [][LNext]_vars

-----------------------------------------------------------------------------
(* Claims about the GraphvizBackend *)

\* the nodes of the tree under root, in document order
Tree == Preorder(nodes, root)
InTree(n) == \E i \in 1..Len(Tree) : Tree[i] = n

\* the position in _passes of the pass op that the current render() registered
\* (0 before the first render())
OwnPass(op) ==
  LET S == {i \in 1..Len(passes) : passes[i].call = renders /\ passes[i].op = op}
  IN  IF S = {} THEN 0 ELSE CHOOSE i \in S : TRUE

\* the current render() has applied its pass op to every node and no op of a
\* later pass yet
JustCompleted(op) ==
  /\ renders >= 1
  /\ OwnPass(op) # 0
  /\ passidx = OwnPass(op) + 1
  /\ \A i \in 1..Len(applied) : applied[i][1] <= OwnPass(op)

\* the calls the current render() made on the graphviz objects
OwnCalls ==
  IF renders = 0 THEN <<>>
  ELSE SubSeq(calls, snapshots[renders].from + 1, Len(calls))

\* the calls that render() number k made
CallsOf(k) == SubSeq(calls, snapshots[k].from + 1, snapshots[k].upto)

\* the nodes of the tree that carry identifier id
Carriers(id) == {n \in 1..Len(nodes) : InTree(n) /\ nodes[n].identifier = id}

\* C3 as claimed: the identifier-collection pass raises RedefinedIdentifierError
\* naming an identifier exactly when two nodes of the tree carry that identifier,
\* and when the pass completes the table maps each identifier of the tree to the
\* one node that carries it.
C3Claimed ==
  /\ rerror.type = "RedefinedIdentifierError" =>
       Cardinality(Carriers(rerror.arg)) >= 2
  /\ JustCompleted("collectidentifiedop") =>
       /\ \A n \in 1..Len(nodes) :
            (InTree(n) /\ nodes[n].identifier # None) =>
              /\ Carriers(nodes[n].identifier) = {n}
              /\ nodes[n].identifier \in DOMAIN identifiednodes
              /\ identifiednodes[nodes[n].identifier] = n
       /\ \A id \in DOMAIN identifiednodes : Carriers(id) # {}

\* the link nodes of the tree whose parent is visible and whose text is the
\* identifier of a visible node
LiveLinks ==
  {n \in 1..Len(nodes) :
     /\ InTree(n)
     /\ linkpred(nodes[n])
     /\ nodes[n].parent # NoNode
     /\ nodes[nodes[n].parent].visible
     /\ \E h \in Carriers(nodes[n].text) : nodes[h].visible}

\* the positions in the current render()'s calls of the edges that extralinkop
\* made for link node n
LinkEdges(n) ==
  {i \in 1..Len(OwnCalls) :
     /\ OwnCalls[i].call = "edge"
     /\ OwnCalls[i].op = "extralinkop"
     /\ OwnCalls[i].node = n}

\* C4: when the cross-link pass of a render() completes, it has emitted, for
\* each link node whose parent is visible and whose text is the identifier of a
\* visible node, exactly one edge, from the link node's parent to that node,
\* wherever in the document that node is declared.
C4CrossLinks ==
  JustCompleted("extralinkop") =>
    \A n \in LiveLinks :
      /\ Cardinality(LinkEdges(n)) = 1
      /\ \A i \in LinkEdges(n) :
           /\ OwnCalls[i].tailnode = nodes[n].parent
           /\ OwnCalls[i].headnode \in Carriers(nodes[n].text)
           /\ OwnCalls[i].tail = nodes[nodes[n].parent].text
           /\ OwnCalls[i].head = nodes[OwnCalls[i].headnode].text

\* C4 witness: the cross-link pass has completed over a tree in which a link node
\* under a visible parent comes before the node that declares its identifier, and
\* the one edge was emitted.
C4Witness ==
  /\ JustCompleted("extralinkop")
  /\ \E n \in LiveLinks :
       /\ \A h \in Carriers(nodes[n].text) : h > n
       /\ Cardinality(LinkEdges(n)) = 1

\* the attribute nodes of the tree that have a parent
AttrNodes ==
  {n \in 1..Len(nodes) : InTree(n) /\ attrpred(nodes[n]) /\ nodes[n].parent # NoNode}

\* C5 as claimed: after the attribute-hoisting pass every attribute node with text
\* t under parent P is invisible and P's attributes map the label without its
\* reserved prefix to t.
C5Claimed ==
  JustCompleted("nodeattrop") =>
    \A n \in AttrNodes :
      LET key == SubSeq(nodes[n].label, 3, Len(nodes[n].label))
          attrs == nodes[nodes[n].parent].attributes
      IN  /\ ~nodes[n].visible
          /\ key \in DOMAIN attrs
          /\ attrs[key] = nodes[n].text

\* the last child of p that is an attribute node labelled as n is
LastLabelled(p, n) ==
  LET cs == nodes[p].children
      S == {i \in 1..Len(cs) : attrpred(nodes[cs[i]]) /\ nodes[cs[i]].label = nodes[n].label}
  IN  cs[CHOOSE i \in S : \A j \in S : j <= i]

\* C5 amended: after the attribute-hoisting pass every attribute node under a
\* parent P is invisible, and P's attributes map the node's whole label, reserved
\* prefix included (e.g. 'n.color'), to the text of the last attribute child of P
\* that carries this label: the node's own text t when no later sibling repeats
\* the label.
C5Hoisted ==
  JustCompleted("nodeattrop") =>
    \A n \in AttrNodes :
      LET attrs == nodes[nodes[n].parent].attributes
      IN  /\ ~nodes[n].visible
          /\ nodes[n].label \in DOMAIN attrs
          /\ attrs[nodes[n].label] = nodes[LastLabelled(nodes[n].parent, n)].text

\* C5 witness: the hoisting pass has completed and a parent holds, under the whole
\* label, the text of its one attribute child, which is hidden.
C5Witness ==
  /\ JustCompleted("nodeattrop")
  /\ \E n \in AttrNodes :
       /\ LastLabelled(nodes[n].parent, n) = n
       /\ nodes[nodes[n].parent].attributes[nodes[n].label] = nodes[n].text
       /\ ~nodes[n].visible

\* C6: whenever the parent/child edge pass or the cross-link pass emits an edge,
\* the two nodes it joins are visible at that moment: no node hidden by a caller's
\* prepass or by the attribute hoisting gets an edge to its parent or is the tail
\* or head of a cross-link edge.
C6VisibleEnds ==
  [][(Len(calls') = Len(calls) + 1 /\ calls'[Len(calls')].call = "edge") =>
       LET e == calls'[Len(calls')]
       IN  /\ e.op \in {"edgerenderop", "extralinkop"}
           /\ nodes[e.tailnode].visible
           /\ nodes[e.headnode].visible]_vars

\* C6 witness: a render() has returned in which a prepass hid the node a link
\* names, the link's parent being visible, and no edge to or from the hidden node
\* was emitted although other edges were.
C6Witness ==
  /\ rpc = "idle"
  /\ rresult
  /\ renders = 1
  /\ \E n \in 1..Len(nodes), h \in 1..Len(nodes) :
       /\ linkpred(nodes[n])
       /\ nodes[n].parent # NoNode
       /\ nodes[nodes[n].parent].visible
       /\ nodes[h].identifier = nodes[n].text
       /\ ~nodes[h].visible
       /\ \E i \in 1..Len(applied) : applied[i][2] = "hide" /\ applied[i][3] = h
       /\ \A i \in 1..Len(calls) :
            calls[i].call = "edge" => calls[i].tailnode # h /\ calls[i].headnode # h
       /\ \E i \in 1..Len(calls) : calls[i].call = "edge"

\* the positions in the current render()'s calls at which Group g's container
\* was embedded
EmbedsOf(g) ==
  {i \in 1..Len(OwnCalls) : OwnCalls[i].call = "subgraph" /\ OwnCalls[i].group = g}

\* the groups above g in the group tree
RECURSIVE GroupAncestors(_)
GroupAncestors(g) ==
  IF groups[g].parent = NoNode THEN {}
  ELSE {groups[g].parent} \cup GroupAncestors(groups[g].parent)

\* the groups in the order Group.bottomupiter makes: children before parent
RECURSIVE Postorder(_, _)
RECURSIVE PostorderAll(_, _)
Postorder(gs, g) == PostorderAll(gs, gs[g].children) \o <<g>>
PostorderAll(gs, cs) ==
  IF cs = <<>> THEN <<>> ELSE Postorder(gs, Head(cs)) \o PostorderAll(gs, Tail(cs))

\* C7: while a render() runs, a group's container is embedded into the container
\* of its parent group, at most once, only after the containers of all the
\* groups below it were embedded and after every node call of that render();
\* once the group-assembly pass has completed every non-root group was embedded
\* exactly once.
C7BottomUp ==
  rpc = "rendering" =>
    /\ \A i \in 1..Len(OwnCalls) :
         OwnCalls[i].call = "subgraph" =>
           LET g == OwnCalls[i].group
           IN  /\ groups[g].parent # NoNode
               /\ OwnCalls[i].graph = groups[groups[g].parent].graph
               /\ OwnCalls[i].sub = groups[g].graph
               /\ \A d \in 1..Len(groups) :
                    g \in GroupAncestors(d) => \E j \in EmbedsOf(d) : j < i
               /\ \A j \in 1..Len(OwnCalls) : OwnCalls[j].call = "node" => j < i
    /\ \A g \in 1..Len(groups) : Cardinality(EmbedsOf(g)) <= 1
    /\ JustCompleted("groupassembleop") =>
         \A g \in 2..Len(groups) : Cardinality(EmbedsOf(g)) = 1

\* C7 witness: the group-assembly pass has completed for the group tree
\* root -> groups[2] -> groups[3], nodes were rendered into both containers, and
\* groups[3] was embedded before groups[2].
C7Witness ==
  /\ JustCompleted("groupassembleop")
  /\ Len(groups) = 3
  /\ groups[2].parent = 1
  /\ groups[3].parent = 2
  /\ \E i \in 1..Len(OwnCalls) : OwnCalls[i].call = "node" /\ OwnCalls[i].graph = 2
  /\ \E i \in 1..Len(OwnCalls) : OwnCalls[i].call = "node" /\ OwnCalls[i].graph = 3
  /\ \E i \in EmbedsOf(3), j \in EmbedsOf(2) : i < j

\* where a pass stands in the order the claim gives
Rank(p) ==
  CASE p.role = "pre" -> 0
    [] p.role = "post" -> 7
    [] p.op = "collectidentifiedop" -> 1
    [] p.op = "nodeattrop" -> 2
    [] p.op = "noderenderop" -> 3
    [] p.op = "groupassembleop" -> 4
    [] p.op = "edgerenderop" -> 5
    [] p.op = "extralinkop" -> 6

\* the items the pass at position i of _passes was applied to by the current
\* render(), in order
Visited(i) ==
  LET es == SelectSeq(applied, LAMBDA e : e[1] = i)
  IN  [k \in 1..Len(es) |-> es[k][3]]

\* whether the op at position i of applied belongs to a pass that the current
\* render() registered
Own(i) == passes[applied[i][1]].call = renders

C9Claimed ==
  (\A i \in 1..Len(passes) : passes[i].role = "std") =>
    \A k \in 1..Len(snapshots) :
      /\ snapshots[k].table = EmptyDict
      /\ (/\ k >= 2
          /\ snapshots[k].done
          /\ snapshots[k - 1].error = NoError) =>
           /\ snapshots[k].error = NoError
           /\ CallsOf(k) = CallsOf(k - 1)

\* C10 as claimed: group() and groupsubtree() fail rather than give a node that
\* belongs to an explicit group to another one, so the group of a node, once set,
\* never changes.
C10Claimed ==
  [][\A n \in 1..Len(nodes) :
       nodes[n].graph # NoGraph => nodes'[n].graph = nodes[n].graph]_vars
\* the link nodes of the tree that have children
LinkParents ==
  {n \in 1..Len(nodes) : InTree(n) /\ linkpred(nodes[n]) /\ nodes[n].children # <<>>}

\* C11 as claimed: render() fails when a link node of the tree has children, so no
\* render() returns the graph over such a tree, and no cross-link edge is ever
\* emitted for a link node that is not a leaf.
C11Claimed ==
  /\ (rpc = "idle" /\ rresult) => LinkParents = {}
  /\ \A i \in 1..Len(calls) :
       (calls[i].call = "edge" /\ calls[i].op = "extralinkop") =>
         calls[i].node \notin LinkParents
\* the link nodes of the tree whose text is the identifier of no node of the tree
DanglingLinks ==
  {n \in 1..Len(nodes) : InTree(n) /\ linkpred(nodes[n]) /\ Carriers(nodes[n].text) = {}}

\* the step applies op to node n
Applies(op, n) ==
  /\ Len(applied') = Len(applied) + 1
  /\ applied'[Len(applied')][2] = op
  /\ applied'[Len(applied')][3] = n

\* C12: when the cross-link op reaches a link node whose text is no collected
\* identifier (no node of the tree carries it), it raises UndefinedIdentifierError
\* with that text, no call is made on the graph, and render() ends without
\* returning the graph; and no render() returns the graph while the tree holds
\* such a link node.
C12Undefined ==
  [][/\ \A n \in 1..Len(nodes) :
          (Applies("extralinkop", n) /\ linkpred(nodes[n])
             /\ (nodes[n].text \notin DOMAIN identifiednodes \/ n \in DanglingLinks)) =>
            (/\ rerror' = Error("UndefinedIdentifierError", nodes[n].text)
             /\ calls' = calls
             /\ rpc' = "idle"
             /\ ~rresult')
     /\ (rpc = "rendering" /\ rresult') => DanglingLinks = {}]_vars

\* C12 witness: a render() over a tree that declares an identifier has ended with
\* UndefinedIdentifierError for the text of a link node that names another one,
\* without returning the graph and without an edge for that link node.
C12Witness ==
  /\ rpc = "idle"
  /\ ~rresult
  /\ rerror.type = "UndefinedIdentifierError"
  /\ identifiednodes # EmptyDict
  /\ \E n \in DanglingLinks :
       /\ nodes[n].text = rerror.arg
       /\ applied[Len(applied)] = <<passidx, "extralinkop", n>>
       /\ LinkEdges(n) = {}
\* the positions in the current render()'s calls of the node calls made for node n
NodeCallsOf(n) ==
  {i \in 1..Len(OwnCalls) : OwnCalls[i].call = "node" /\ OwnCalls[i].node = n}

\* the keys of the attribute mapping a that carry the node-attribute prefix
NodeKeys(a) == {k \in DOMAIN a : Len(k) >= 2 /\ k[1] = "n" /\ k[2] = "."}

\* C13: when the node-render pass of a render() completes it has emitted, for each
\* node of the tree that is visible (after the attribute hoisting), exactly one
\* node call, into the container of the node's group (self._graph, container 1,
\* when it has none), named by the node's text, with the node's 'n.' attributes
\* under their keys without the prefix; and no node call for an invisible node
\* (an attribute node, a link node) or for anything else.
C13NodeCalls ==
  JustCompleted("noderenderop") =>
    /\ \A n \in 1..Len(nodes) :
         IF InTree(n) /\ nodes[n].visible
         THEN /\ Cardinality(NodeCallsOf(n)) = 1
              /\ \A i \in NodeCallsOf(n) :
                   LET c == OwnCalls[i]
                       a == nodes[n].attributes
                   IN  /\ c.graph = IF nodes[n].graph = NoGraph THEN 1 ELSE nodes[n].graph
                       /\ c.name = nodes[n].text
                       /\ DOMAIN c.attrs = {SubSeq(k, 3, Len(k)) : k \in NodeKeys(a)}
                       /\ \A k \in NodeKeys(a) : c.attrs[SubSeq(k, 3, Len(k))] = a[k]
         ELSE NodeCallsOf(n) = {}
    /\ \A n \in 1..Len(nodes) :
         (attrpred(nodes[n]) \/ linkpred(nodes[n])) => NodeCallsOf(n) = {}

\* C13 witness: the node-render pass has completed over a tree in which a node
\* with a hoisted 'n.' attribute was assigned to a group and rendered into the
\* group's container with that attribute, and an attribute node and a link node
\* of the tree got no node call.
C13Witness ==
  /\ JustCompleted("noderenderop")
  /\ \E n \in 1..Len(nodes) :
       /\ InTree(n)
       /\ nodes[n].graph # NoGraph
       /\ NodeKeys(nodes[n].attributes) # {}
       /\ \E i \in NodeCallsOf(n) :
            OwnCalls[i].graph = nodes[n].graph /\ DOMAIN OwnCalls[i].attrs # {}
  /\ \E n \in 1..Len(nodes) : InTree(n) /\ attrpred(nodes[n]) /\ NodeCallsOf(n) = {}
  /\ \E n \in 1..Len(nodes) : InTree(n) /\ linkpred(nodes[n]) /\ NodeCallsOf(n) = {}
\* the errors the documentation gives render(); the source defines the first three
Documented ==
  {"RedefinedIdentifierError", "UndefinedIdentifierError", "AnonymousAttributeError",
   "NonuniqueGroup", "LinkStructureError"}

\* C14 as claimed: over every tree the Parser produces, a root that is a link node
\* or an attribute node included, a render() that does not complete raises one of
\* the documented errors.
C14Claimed == rerror.type \in Documented \cup {"none"}
-----------------------------------------------------------------------------
(* Further claims about the Parser *)

\* the depth of node n in the tree: 0 for a node without a parent
RECURSIVE Depth(_)
Depth(n) == IF nodes[n].parent = NoNode THEN 0 ELSE Depth(nodes[n].parent) + 1

\* C15 as claimed: when parse() has returned, the level of every node is its depth
\* in the tree: 0 for a root, the level of its parent plus one for any other node.
C15Claimed ==
  (ppc = "idle" /\ parses >= 1 /\ perror = "none") =>
    \A n \in 1..Len(nodes) : nodes[n].level = Depth(n)
\* a whitespace-only line
Blank(line) == line # <<>> /\ \A i \in 1..Len(line) : IsSpaceChar(line[i])

\* a comment line: optional leading whitespace, then '#', then any rest
Comment(line) ==
  \E k \in 1..Len(line) : line[k] = "#" /\ \A i \in 1..(k - 1) : IsSpaceChar(line[i])

\* a bulleted entry: optional leading whitespace, a bullet, and a text that
\* decomposes into optional identifier, optional label and a body
Bulleted(line) ==
  /\ \E k \in 1..Len(line) : IsBullet(line[k]) /\ \A i \in 1..(k - 1) : IsSpaceChar(line[i])
  /\ noderegex(line).ok
  /\ tmmnoderegex(noderegex(line).text).ok

\* what C16 asks of r, the turn of parse()'s loop for line
Treated(line, r) ==
  IF Blank(line) \/ Comment(line)
  THEN r.error = "none" /\ r.node = NoNode /\ r.nodes = nodes
  ELSE r.error = "InvalideSyntaxError" <=> ~Bulleted(line)

\* C16 as claimed: whatever parse() has read so far, it skips a whitespace-only
\* line and a line of optional whitespace, '#' and any rest, an empty rest
\* included, making no node and raising nothing; of the other lines it raises
\* InvalideSyntaxError for exactly those that are no bulleted entry.
C16Claimed ==
  ppc = "parsing" =>
    \A line \in Lines : Treated(line, ParseLine(nodes, stack, roots, line))
-----------------------------------------------------------------------------
(* Further claims about the GraphvizBackend *)

\* what C17 asks of r, the outcome of a grouping call without a name: a new
\* group whose name no other group of the backend has
Generated(r) ==
  /\ r.error = NoError
  /\ Len(r.groups) = Len(groups) + 1
  /\ \A g \in 1..Len(groups) : r.groups[g].text # r.groups[Len(r.groups)].text

\* C17 as claimed: whenever the backend is not rendering, group() and
\* groupsubtree() called without a name, on any node and under any group, succeed
\* and give the new group a name that no other group of the backend has.
C17Claimed ==
  rpc = "idle" =>
    \A n \in 1..Len(nodes), parent \in 1..Len(groups) :
      /\ Generated(GroupBody(nodes, groups, <<n>>, None, parent))
      /\ Generated(GroupBody(nodes, groups, Preorder(nodes, n), None, parent))
\* the ops of the standard passes
StdOps ==
  {"collectidentifiedop", "nodeattrop", "noderenderop", "groupassembleop",
   "edgerenderop", "extralinkop"}

\* C18: no op of a standard pass changes the structure of the tree: it makes and
\* removes no node, and leaves every node's parent and ordered children, hidden
\* nodes included, as well as its text, identifier, label and group, and the
\* groups; what it may change is a node's visibility and attributes, and the
\* identifier table.  So after any number of such ops the tree is the one before
\* render().
C18Frame ==
  [][(\E op \in StdOps : \E x \in 1..(Len(nodes) + Len(groups)) : Applies(op, x)) =>
       /\ Len(nodes') = Len(nodes)
       /\ \A n \in 1..Len(nodes) :
            /\ nodes'[n].parent = nodes[n].parent
            /\ nodes'[n].children = nodes[n].children
            /\ nodes'[n].text = nodes[n].text
            /\ nodes'[n].identifier = nodes[n].identifier
            /\ nodes'[n].label = nodes[n].label
            /\ nodes'[n].graph = nodes[n].graph
            /\ nodes'[n].level = nodes[n].level
            /\ nodes'[n].index = nodes[n].index
       /\ groups' = groups
       /\ root' = root]_vars

\* C18 witness: a render() given no passes has returned after it collected an
\* identifier, hoisted an attribute and hid the attribute node, which is still
\* among the children of its parent.
C18Witness ==
  /\ rpc = "idle"
  /\ rresult
  /\ \A i \in 1..Len(passes) : passes[i].role = "std"
  /\ identifiednodes # EmptyDict
  /\ \E n \in 1..Len(nodes) :
       /\ InTree(n)
       /\ ~nodes[n].visible
       /\ nodes[n].parent # NoNode
       /\ \E i \in 1..Len(nodes[nodes[n].parent].children) :
            nodes[nodes[n].parent].children[i] = n
       /\ nodes[nodes[n].parent].attributes # EmptyDict
\* a node call for node n is among the first i - 1 calls of the current render()
RenderedBefore(n, i) ==
  \E j \in 1..(i - 1) : OwnCalls[j].call = "node" /\ OwnCalls[j].node = n

\* C19 as claimed: in a render() given no passes, every edge call, of the
\* parent/child pass or of the cross-link pass, joins two nodes for each of which
\* the same render() made a node call before.
C19Claimed ==
  (\A i \in 1..Len(passes) : passes[i].role = "std") =>
    \A i \in 1..Len(OwnCalls) :
      OwnCalls[i].call = "edge" =>
        /\ RenderedBefore(OwnCalls[i].tailnode, i)
        /\ RenderedBefore(OwnCalls[i].headnode, i)
-----------------------------------------------------------------------------
(* A second parse() on the same Parser *)

\* C20 as claimed: in every parse() of a Parser, the first or a later one, after
\* an earlier parse() returned or raised, the roots and the parents are those a
\* new Parser gives the same lines: roots holds the nodes of the lines with no
\* earlier line of smaller indentation width, every other node is the child of
\* the nearest earlier line of smaller width, and no node of this parse() has a
\* node of an earlier parse() as parent.
C20Claimed ==
  /\ roots = [i \in 1..Len(TopLevel) |-> TopLevel[i][1]]
  /\ \A k \in 1..Len(seen) :
       LET n == seen[k][1]
           j == NearestSmaller(k)
       IN  /\ j # 0 => nodes[n].parent = seen[j][1]
           /\ nodes[n].parent = NoNode \/ nodes[n].parent >= seen[1][1]
=============================================================================
